---- MODULE Spec2Model ----
(***************************************************************************)
(* Model of the mental-rotation experiment of devoir_hss:                  *)
(*   - generate_trial_set (experiments/experience_pygame_3d.py), the       *)
(*     trial plan built from the stimulus collection;                      *)
(*   - run_experiment_3d (same file), the event loop of a session: one     *)
(*     batch of pygame events per frame, then the rendering of the frame.  *)
(*                                                                         *)
(* Representation.                                                         *)
(*   - Python's True / False / None are the strings "True", "False",       *)
(*     "None"; a key missing from a stimulus dict is "Absent".             *)
(*   - A stimulus dict is referred to by its index in the collection       *)
(*     (the lists built by generate_trial_set hold references to the       *)
(*     dicts of the collection, not copies).                               *)
(*   - Rotations are kept in half degrees: the code adds dx * 0.5 degrees  *)
(*     per pixel, i.e. dx half degrees, which is exact for integer pixel   *)
(*     coordinates.                                                        *)
(***************************************************************************)
EXTENDS Integers, Sequences, FiniteSets

\* ------------------------------------------------------------------ bounds
\* Largest stimulus collection and largest n_with_rotation / n_without_rotation
\* of the plan specification (SpecPlan).
PlanMaxStim == 4
PlanMaxN == 2
\* The same for a session (Spec).
MaxStim == 2
MaxN == 1
\* Effective drag events modelled per trial.
MaxDrags == 2
\* Largest reading of the wall clock.
MaxTime == 1

\* Pointer positions delivered by the input source (pixels, inside the
\* 1200 x 700 window).
Positions == { <<0, 0>>, <<801, 0>>, <<0, 601>> }
\* The events that end the session: pygame.QUIT and KEYDOWN of K_ESCAPE.
AbortSignals == {"QUIT", "K_ESCAPE"}
\* Mouse buttons: 1 is the left button.
Buttons == {1, 3}

\* ------------------------------------------------------------ Python values
True == "True"
False == "False"
None == "None"
Absent == "Absent"

\* Python's `not x`: None and False are falsy.
PyNot(x) == IF x = True THEN False ELSE True

Min(a, b) == IF a <= b THEN a ELSE b

\* ------------------------------------------------------------------ stimuli
\* Contents of stimuli_data.json: the id, angle and rotation.y of the record
\* at index i are fixed by i; is_mirror is what the labeling tool has (or has
\* not yet) written.
StimIds == <<"stim_1", "stim_2", "stim_3", "stim_4", "stim_5", "stim_6">>
AngleStep == 60
MkStimulus(i, m) ==
    [id |-> StimIds[i], is_mirror |-> m,
     angle |-> AngleStep * i, rotation_y |-> AngleStep * i]

Collections(maxLen, mirrors) ==
    UNION { { [i \in 1..n |-> MkStimulus(i, f[i])] : f \in [1..n -> mirrors] }
            : n \in 0..maxLen }

\* json.dump / json.load of a Python value: True, False and None are written
\* as the literals true, false and null; a missing key is not written.
JsonLiteral(v) ==
    IF v = True THEN "true"
    ELSE IF v = False THEN "false"
    ELSE IF v = None THEN "null"
    ELSE Absent

JsonValueMutantNullAsFalse(lit) ==
    IF lit = "true" THEN True ELSE IF lit = Absent THEN Absent ELSE False

JsonValue(lit) ==
    IF lit = "true" THEN True
    ELSE IF lit = "false" THEN False
    ELSE IF lit = "null" THEN None
    ELSE Absent

\* The same for a value that is always a bool.
JsonBool(b) == IF b THEN "true" ELSE "false"
PyBool(lit) == lit = "true"

\* dict.get(key) and dict.get(key, default) on the is_mirror key.
GetIsMirror(s, default) == IF s.is_mirror = Absent THEN default ELSE s.is_mirror

\* ------------------------------------------------------- generate_trial_set
ShufflePerms(n) == { p \in [1..n -> 1..n] : \A i, j \in 1..n : p[i] = p[j] => i = j }

Indices(stimuli) == [i \in 1..Len(stimuli) |-> i]

\* [s for s in stimuli if s.get('is_mirror') is not None], as indices.
ValidStimuli(stimuli) ==
    LET Keep(i) == GetIsMirror(stimuli[i], None) # None
    IN  SelectSeq(Indices(stimuli), Keep)

\* stimuli[:n]
FirstN(seq, n) == SubSeq(seq, 1, Min(n, Len(seq)))

\* The list that is shuffled: the valid stimuli, or the first n of the
\* original collection when fewer than n are valid.
FallbackTaken(stimuli, n) == Len(ValidStimuli(stimuli)) < n

ShuffleMutantNoFallback(stimuli, n) == ValidStimuli(stimuli)

ShuffleMutantNoFilter(stimuli, n) == FirstN(Indices(stimuli), Len(stimuli))

ShufflePool(stimuli, n) ==
    IF FallbackTaken(stimuli, n)
    THEN FirstN(Indices(stimuli), n)
    ELSE ValidStimuli(stimuli)

ShuffleMutantRepeatFirst(pool, perm) == [k \in 1..Len(pool) |-> pool[perm[1]]]

\* random.shuffle(valid_stimuli): perm is the permutation drawn.
Shuffle(pool, perm) == [k \in 1..Len(pool) |-> pool[perm[k]]]

RotationEnabledMutantOffByOne(i, n_with_rotation) == i <= n_with_rotation

\* rotation_enabled = i < n_with_rotation, i the enumerate index (from 0).
RotationEnabledAt(i, n_with_rotation) == i < n_with_rotation

TakeMutantAll(shuffled, n) == shuffled

\* valid_stimuli[:n_with_rotation + n_without_rotation]
TakeTrials(shuffled, n) == FirstN(shuffled, n)

GenerateTrialSet(stimuli, n_with, n_without, perm) ==
    LET n == n_with + n_without
        chosen == TakeTrials(Shuffle(ShufflePool(stimuli, n), perm), n)
    IN  [k \in 1..Len(chosen) |->
            [stimulus |-> chosen[k],
             rotation_enabled |-> RotationEnabledAt(k - 1, n_with),
             is_mirror |-> GetIsMirror(stimuli[chosen[k]], False)]]

\* --------------------------------------------------------------- disparity
RECURSIVE SqrtSearch(_, _, _)
SqrtSearch(v, lo, hi) ==
    IF lo >= hi THEN lo
    ELSE LET mid == (lo + hi + 1) \div 2
         IN  IF mid * mid <= v THEN SqrtSearch(v, mid, hi)
                               ELSE SqrtSearch(v, lo, mid - 1)

\* math.sqrt, on the half-degree grid (rounded down to a grid point). The
\* search starts below 46341, whose square no longer fits 32 bits.
Sqrt(v) == SqrtSearch(v, 0, Min(v, 46340))

DisparityMutantBaseAngle(initial_angle_y, user_rot_x, user_rot_y) ==
    Sqrt(user_rot_x * user_rot_x + user_rot_y * user_rot_y) + 2 * initial_angle_y

\* calculate_angular_disparity: the initial angle is received and not used.
CalculateAngularDisparity(initial_angle_y, user_rot_x, user_rot_y) ==
    Sqrt(user_rot_x * user_rot_x + user_rot_y * user_rot_y)

\* ------------------------------------------------------------------- state
VARIABLES
    all_stimuli,          \* the loaded stimulus collection
    n_with_rotation,      \* arguments of generate_trial_set
    n_without_rotation,
    trials,               \* the plan
    plan_stimuli,         \* history: the collection as generate_trial_set read it
    pc,                   \* "plan" | "planned" | "events" | "render" | "quit" | "done" | "crashed" | "idle"
    error,                \* the exception that ended run_experiment_3d, "none" if none
    running,
    current_trial,        \* 0-based index of the trial being presented
    current_trial_data,
    rotation_enabled,
    results,              \* list of TrialResult
    start_time,
    now,                  \* the wall clock read by time.time()
    response_rot_x,       \* half degrees
    response_rot_y,
    mouse_dragging,
    last_mouse_pos,       \* <<>> is None
    rotation,             \* <<>> while the local is unbound, else <<rotation['y']>>
    results_file,         \* experiment_results.json: number of writes, content
    abort_at,             \* history: len(results) when the first abort was handled, -1 before
    n_drags,              \* history: effective drag events of the current trial
    drag_sum,             \* history: <<sum of dx, sum of dy>> over those events
    held_since,           \* history: trial of the pointer-down of the drag in
                          \* progress, -1 when no drag is in progress
    \* draw_first_stimulus.py, one labeling process per element of Sessions
    stim_file,            \* stimuli_data.json: one serialized record per line
    lab_pc,               \* "off" | "loop" | "saving" | "quit" | "crashed"
    lab_error,            \* the exception that ended the process, "none" if none
    lab_stimuli,          \* all_stimuli of the process
    lab_index,            \* current_index
    lab_rot,              \* <<right_rotation_x, right_rotation_y>>, half degrees
    lab_dragging,         \* mouse_dragging
    lab_last_pos,         \* last_mouse_pos, <<>> is None
    lab_data,             \* data of a save_stimulus_to_json call in progress
    \* analyze_ade.py and analyze_ade_automatically
    ana_pc,               \* "off" | "input" | "done"
    ana_results,          \* the list of result dicts handed to the analyzer
    ana_out               \* what the analyzer computed

labelVars == <<stim_file, lab_pc, lab_error, lab_stimuli, lab_index, lab_rot,
               lab_dragging, lab_last_pos, lab_data>>
anaVars == <<ana_pc, ana_results, ana_out>>
toolVars == <<labelVars, anaVars>>

vars == <<all_stimuli, n_with_rotation, n_without_rotation, trials,
          plan_stimuli, pc, error, running,
          current_trial, current_trial_data, rotation_enabled, results,
          start_time, now, response_rot_x, response_rot_y, mouse_dragging,
          last_mouse_pos, rotation, results_file, abort_at, n_drags, drag_sum,
          held_since,
          toolVars>>

planVars == <<all_stimuli, n_with_rotation, n_without_rotation, trials,
              plan_stimuli>>
loopVars == <<running, current_trial, current_trial_data, rotation_enabled,
              results, start_time>>
rotVars == <<response_rot_x, response_rot_y>>
mouseVars == <<mouse_dragging, last_mouse_pos>>
dragHist == <<n_drags, drag_sum, held_since>>

NoPos == <<>>
Unbound == <<>>
NoTrial == [stimulus |-> 0, rotation_enabled |-> FALSE, is_mirror |-> None]
NoAbort == 0 - 1

\* The processes that a specification does not run.
Sessions == {1, 2}

LabelIdle ==
    /\ stim_file = <<>>
    /\ lab_pc = [s \in Sessions |-> "off"]
    /\ lab_error = [s \in Sessions |-> "none"]
    /\ lab_stimuli = [s \in Sessions |-> <<>>]
    /\ lab_index = [s \in Sessions |-> 0]
    /\ lab_rot = [s \in Sessions |-> <<0, 0>>]
    /\ lab_dragging = [s \in Sessions |-> FALSE]
    /\ lab_last_pos = [s \in Sessions |-> NoPos]
    /\ lab_data = [s \in Sessions |-> <<>>]

AnalyzerIdle ==
    /\ ana_pc = "off"
    /\ ana_results = <<>>
    /\ ana_out = <<>>

ToolsIdle == LabelIdle /\ AnalyzerIdle

\* Lines 276-285: the state of the experiment before the first frame.
SessionLocals ==
    /\ running = TRUE
    /\ current_trial = 0
    /\ results = <<>>
    /\ start_time = 0
    /\ now = 0
    /\ response_rot_x = 0
    /\ response_rot_y = 0
    /\ mouse_dragging = FALSE
    /\ last_mouse_pos = NoPos
    /\ rotation = Unbound
    /\ results_file = [writes |-> 0, content |-> <<>>]
    /\ abort_at = NoAbort
    /\ n_drags = 0
    /\ drag_sum = <<0, 0>>
    /\ held_since = 0 - 1

\* ------------------------------------------------ plan specification (SpecPlan)
InitPlan ==
    /\ all_stimuli \in Collections(PlanMaxStim, {True, False, None, Absent})
    /\ n_with_rotation \in 0..PlanMaxN
    /\ n_without_rotation \in 0..PlanMaxN
    /\ trials = <<>>
    /\ plan_stimuli = all_stimuli
    /\ pc = "plan"
    /\ error = "none"
    /\ ToolsIdle
    /\ current_trial_data = NoTrial
    /\ rotation_enabled = FALSE
    /\ SessionLocals

\* load_stimuli returns whatever list the file holds: it raises nothing for
\* an empty one.
LoadStimuliError(data) == "none"

\* trials = generate_trial_set(all_stimuli, n_with_rotation, n_without_rotation)
PlanTrials ==
    /\ pc = "plan"
    /\ \E perm \in ShufflePerms(Len(ShufflePool(all_stimuli,
                                    n_with_rotation + n_without_rotation))) :
          trials' = GenerateTrialSet(all_stimuli, n_with_rotation,
                                     n_without_rotation, perm)
    /\ pc' = "planned"
    /\ UNCHANGED <<all_stimuli, n_with_rotation, n_without_rotation,
                   plan_stimuli, error, toolVars>>
    /\ UNCHANGED <<loopVars, now, rotVars, mouseVars, rotation, results_file,
                   abort_at, dragHist>>

NextPlan == PlanTrials

SpecPlan == InitPlan /\ [][NextPlan]_vars

\* -------------------------------------------------- session specification (Spec)
\* run_experiment_3d up to the first iteration of the loop: the collection is
\* loaded, the plan generated, and trials[0] prepared; trials[0] raises
\* IndexError when the plan is empty.
InitSession(mirrors, counts) ==
    /\ all_stimuli \in Collections(MaxStim, mirrors)
    /\ \E c \in counts :
          /\ n_with_rotation = c[1]
          /\ n_without_rotation = c[2]
    /\ \E perm \in ShufflePerms(Len(ShufflePool(all_stimuli,
                                    n_with_rotation + n_without_rotation))) :
          trials = GenerateTrialSet(all_stimuli, n_with_rotation,
                                    n_without_rotation, perm)
    /\ plan_stimuli = all_stimuli
    /\ SessionLocals
    /\ ToolsIdle
    /\ IF LoadStimuliError(all_stimuli) # "none"
       THEN /\ pc = "crashed"
            /\ error = LoadStimuliError(all_stimuli)
            /\ current_trial_data = NoTrial
            /\ rotation_enabled = FALSE
       ELSE IF Len(trials) = 0
       THEN /\ pc = "crashed"
            /\ error = "IndexError"
            /\ current_trial_data = NoTrial
            /\ rotation_enabled = FALSE
       ELSE /\ pc = "events"
            /\ error = "none"
            /\ current_trial_data = trials[1]
            /\ rotation_enabled = trials[1].rotation_enabled

Init == InitSession({True, False, None}, (0..MaxN) \X (0..MaxN))

Stimulus(trial) == all_stimuli[trial.stimulus]

TrialIsMirrorMutantLive(trial) == GetIsMirror(Stimulus(trial), False)

\* current_trial_data['is_mirror']: the value stored in the trial at line 147,
\* not the stimulus record the trial refers to.
TrialIsMirror(trial) == trial.is_mirror

\* is_correct = not current_trial_data['is_mirror']
IsCorrectSame(trial) == PyNot(TrialIsMirror(trial))

\* is_correct = current_trial_data['is_mirror']
IsCorrectDifferent(trial) == TrialIsMirror(trial)

TrialNumberMutant(index) == index

\* trial_number = current_trial + 1
TrialNumber(index) == index + 1

\* TrialResult(...) of lines 310-320 / 344-354.
MakeResult(user_response, is_correct) ==
    [trial_number |-> TrialNumber(current_trial),
     stimulus_id |-> Stimulus(current_trial_data).id,
     is_mirror |-> TrialIsMirror(current_trial_data),
     user_response |-> user_response,
     response_time |-> now - start_time,
     is_correct |-> is_correct,
     rotation_enabled |-> rotation_enabled,
     disparity |-> CalculateAngularDisparity(rotation[1], response_rot_x,
                                             response_rot_y),
     initial_angle |-> Stimulus(current_trial_data).angle]

ResetMutantKeep(x) == x

\* response_rot_x = 0.0 / response_rot_y = 0.0
ResetRotation(x) == 0

\* The body shared by the K_s and K_d branches. Reading rotation['y'] before
\* the first frame was rendered raises UnboundLocalError.
Respond(user_response, is_correct) ==
    /\ pc = "events"
    /\ IF rotation = Unbound
       THEN /\ pc' = "crashed"
            /\ error' = "UnboundLocalError"
            /\ UNCHANGED <<loopVars, rotVars, dragHist>>
       ELSE /\ results' = Append(results, MakeResult(user_response, is_correct))
            /\ UNCHANGED error
            /\ current_trial' = current_trial + 1
            /\ IF current_trial + 1 >= Len(trials)
               THEN /\ running' = FALSE
                    /\ pc' = "render"
                    /\ UNCHANGED <<current_trial_data, rotation_enabled,
                                   start_time, rotVars, dragHist>>
               ELSE /\ current_trial_data' = trials[current_trial + 2]
                    /\ rotation_enabled' = trials[current_trial + 2].rotation_enabled
                    /\ response_rot_x' = ResetRotation(response_rot_x)
                    /\ response_rot_y' = ResetRotation(response_rot_y)
                    /\ start_time' = now
                    /\ n_drags' = 0
                    /\ drag_sum' = <<0, 0>>
                    /\ UNCHANGED held_since
                    /\ UNCHANGED <<running, pc>>
    /\ UNCHANGED <<planVars, toolVars, now, mouseVars, rotation, results_file, abort_at>>

\* event.key == pygame.K_s
KeySame == Respond(False, IsCorrectSame(current_trial_data))

\* event.key == pygame.K_d
KeyDifferent == Respond(True, IsCorrectDifferent(current_trial_data))

\* pygame.QUIT, or KEYDOWN with K_ESCAPE: running = False, and the for loop
\* over the batch goes on.
Abort(signal) ==
    /\ pc = "events"
    /\ running' = FALSE
    /\ abort_at' = IF abort_at = NoAbort THEN Len(results) ELSE abort_at
    /\ UNCHANGED <<planVars, toolVars, pc, error, current_trial,
                   current_trial_data, rotation_enabled, results, start_time, now, rotVars,
                   mouseVars, rotation, results_file, dragHist>>

DragStartsMutantUngated(button) == button = 1

\* if event.button == 1 and rotation_enabled
DragStarts(button) == button = 1 /\ rotation_enabled

MouseButtonDown(button, pos) ==
    /\ pc = "events"
    /\ IF DragStarts(button)
       THEN /\ mouse_dragging' = TRUE
            /\ last_mouse_pos' = pos
            /\ held_since' = current_trial
       ELSE UNCHANGED <<mouseVars, held_since>>
    /\ UNCHANGED <<planVars, toolVars, pc, error, loopVars, now, rotVars, rotation,
                   results_file, abort_at, n_drags, drag_sum>>

MouseButtonUp(button) ==
    /\ pc = "events"
    /\ IF button = 1
       THEN /\ mouse_dragging' = FALSE
            /\ held_since' = 0 - 1
       ELSE UNCHANGED <<mouse_dragging, held_since>>
    /\ UNCHANGED <<planVars, toolVars, pc, error, loopVars, now, rotVars,
                   last_mouse_pos,
                   rotation, results_file, abort_at, n_drags, drag_sum>>

DragEffectiveMutantUngated == mouse_dragging

\* if mouse_dragging and rotation_enabled
DragEffective == mouse_dragging /\ rotation_enabled

RotYAfterMutantSwapped(rot_y, dx, dy) == rot_y + dy

\* response_rot_y += dx * 0.5 (half degrees)
RotYAfter(rot_y, dx, dy) == rot_y + dx

\* response_rot_x += dy * 0.5 (half degrees)
RotXAfter(rot_x, dx, dy) == rot_x + dy

\* Subscripting last_mouse_pos while it is None raises TypeError.
MouseMotion(pos) ==
    /\ pc = "events"
    /\ IF DragEffective
       THEN IF last_mouse_pos = NoPos
            THEN /\ pc' = "crashed"
                 /\ error' = "TypeError"
                 /\ UNCHANGED <<rotVars, last_mouse_pos, dragHist>>
            ELSE LET dx == pos[1] - last_mouse_pos[1]
                     dy == pos[2] - last_mouse_pos[2]
                 IN  /\ n_drags < MaxDrags
                     /\ response_rot_y' = RotYAfter(response_rot_y, dx, dy)
                     /\ response_rot_x' = RotXAfter(response_rot_x, dx, dy)
                     /\ last_mouse_pos' = pos
                     /\ n_drags' = n_drags + 1
                     /\ drag_sum' = <<drag_sum[1] + dx, drag_sum[2] + dy>>
                     /\ UNCHANGED held_since
                     /\ UNCHANGED <<pc, error>>
       ELSE UNCHANGED <<pc, error, rotVars, last_mouse_pos, dragHist>>
    /\ UNCHANGED <<planVars, toolVars, loopVars, now, mouse_dragging, rotation,
                   results_file, abort_at>>

\* The batch returned by pygame.event.get() is exhausted.
EndBatch ==
    /\ pc = "events"
    /\ pc' = "render"
    /\ UNCHANGED <<planVars, toolVars, error, loopVars, now, rotVars, mouseVars, rotation,
                   results_file, abort_at, dragHist>>

LoopContinuesMutantTimeout == running /\ now - start_time < MaxTime

\* while running: no other condition ends the loop.
LoopContinues == running

\* Lines 389-424, the test of the while loop and the clock.tick of the next
\* iteration: the frame binds `rotation` to the current stimulus' rotation.
Render ==
    /\ pc = "render"
    /\ rotation' = <<Stimulus(current_trial_data).rotation_y>>
    /\ pc' = IF LoopContinues THEN "events" ELSE "quit"
    /\ \E d \in {0, 1} :
          /\ now + d <= MaxTime
          /\ now' = now + d
    /\ UNCHANGED <<planVars, toolVars, error, loopVars, rotVars, mouseVars, results_file,
                   abort_at, dragHist>>

ResultsDictMutantDropLast(log) == [k \in 1..(Len(log) - 1) |-> log[k]]

\* Lines 429-441: one dict per TrialResult, in the order of the log.
ResultsDict(log) ==
    [k \in 1..Len(log) |->
        [trial_number |-> log[k].trial_number,
         stimulus_id |-> log[k].stimulus_id,
         is_mirror |-> log[k].is_mirror,
         user_response |-> log[k].user_response,
         response_time |-> log[k].response_time,
         is_correct |-> log[k].is_correct,
         rotation_enabled |-> log[k].rotation_enabled,
         disparity |-> log[k].disparity,
         initial_angle |-> log[k].initial_angle]]

\* json.dump(results_dict, f, indent=2): the text of experiment_results.json.
DumpResults(results_dict) ==
    [k \in 1..Len(results_dict) |->
        [results_dict[k] EXCEPT
            !.is_mirror = JsonLiteral(@),
            !.user_response = JsonLiteral(@),
            !.is_correct = JsonLiteral(@),
            !.rotation_enabled = JsonBool(@)]]

\* json.load of that text (load_results of analyze_ade.py).
LoadResults(text) ==
    [k \in 1..Len(text) |->
        [text[k] EXCEPT
            !.is_mirror = JsonValue(@),
            !.user_response = JsonValue(@),
            !.is_correct = JsonValue(@),
            !.rotation_enabled = PyBool(@)]]

\* Lines 426-446: the results are written after the loop.
SaveResults ==
    /\ pc = "quit"
    /\ results_file' = [writes |-> results_file.writes + 1,
                        content |-> DumpResults(ResultsDict(results))]
    /\ pc' = "done"
    /\ UNCHANGED <<planVars, toolVars, error, loopVars, now, rotVars, mouseVars, rotation,
                   abort_at, dragHist>>

Next ==
    \/ KeySame
    \/ KeyDifferent
    \/ \E signal \in AbortSignals : Abort(signal)
    \/ \E b \in Buttons, p \in Positions : MouseButtonDown(b, p)
    \/ \E b \in Buttons : MouseButtonUp(b)
    \/ \E p \in Positions : MouseMotion(p)
    \/ EndBatch
    \/ Render
    \/ SaveResults

Spec == Init /\ [][Next]_vars

\* Trials with rotation requested in the sessions that follow a drag from one
\* trial with rotation into the next.
RotTrials == 2

\* Sessions of RotTrials trials of which the last has rotation or not, on
\* stimuli that are all labeled: no handler of the pointer reads a label.
SpecRotation ==
    /\ InitSession({False}, { <<RotTrials, 0>>, <<RotTrials - 1, 1>> })
    /\ [][Next]_vars

\* The session under the scheduling the loop provides: every batch of events
\* ends, every iteration draws its frame, the results are saved once the loop
\* is left; and under a participant who keeps answering: while trials are
\* presented, a same key or a different key is delivered again and again.
SpecLive ==
    /\ Spec
    /\ WF_vars(EndBatch)
    /\ WF_vars(Render)
    /\ WF_vars(SaveResults)
    /\ SF_vars(KeySame \/ KeyDifferent)

\* A write to a stimulus record while the session runs: stimulus['is_mirror']
\* = value, as the labeling keys do it. The trials refer to the records of
\* all_stimuli (trial['stimulus'] is the same dict), so the write is seen
\* through every trial that binds the record.
EditStimulusRecord(i, value) ==
    /\ pc \in {"events", "render", "quit"}
    /\ i \in 1..Len(all_stimuli)
    /\ all_stimuli' = [all_stimuli EXCEPT ![i].is_mirror = value]
    /\ UNCHANGED <<n_with_rotation, n_without_rotation, trials, plan_stimuli,
                   toolVars, pc, error, loopVars, now, rotVars, mouseVars,
                   rotation, results_file, abort_at, dragHist>>

NextEdit ==
    \/ Next
    \/ \E i \in 1..MaxStim, value \in {True, False} : EditStimulusRecord(i, value)

SpecEdit == Init /\ [][NextEdit]_vars

\* ============================================= draw_first_stimulus.py
\* Labeling processes modelled per file, and largest stimulus file.
LabMaxStim == 3
\* Largest magnitude of right_rotation_x / right_rotation_y followed (half
\* degrees).
LabMaxRot == 801
\* Pointer positions delivered to the labeling window (1200 x 600).
LabPositions == { <<0, 0>>, <<801, 599>> }

sessionVars == <<planVars, pc, error, loopVars, now, rotVars, mouseVars,
                 rotation, results_file, abort_at, dragHist>>

\* The experiment is not running.
SessionIdle ==
    /\ all_stimuli = <<>>
    /\ n_with_rotation = 0
    /\ n_without_rotation = 0
    /\ trials = <<>>
    /\ plan_stimuli = <<>>
    /\ pc = "idle"
    /\ error = "none"
    /\ current_trial_data = NoTrial
    /\ rotation_enabled = FALSE
    /\ SessionLocals

\* json.dumps(obj, separators=(',', ':')) of one stimulus, and the whole file
\* as save_stimulus_to_json lays it out: one object per line, in list order.
DumpStimulus(obj) == [obj EXCEPT !.is_mirror = JsonLiteral(@)]
DumpStimuli(data) == [i \in 1..Len(data) |-> DumpStimulus(data[i])]

\* json.load(f) of the file.
ParseStimulus(line) == [line EXCEPT !.is_mirror = JsonValue(@)]
ParseStimuli(text) == [i \in 1..Len(text) |-> ParseStimulus(text[i])]

\* load_all_stimuli: `if not data: raise ValueError(...)`.
LoadAllStimuliError(data) == IF Len(data) = 0 THEN "ValueError" ELSE "none"

SaveMutantFullRewrite(text, stimuli, index) == DumpStimuli(stimuli)

\* save_stimulus_to_json: the file is read again, the record at current_index
\* is replaced by the one in memory, and the list read is written back.
SaveStimulusToJson(text, stimuli, index) ==
    DumpStimuli([ParseStimuli(text) EXCEPT ![index + 1] = stimuli[index + 1]])

\* all_stimuli = load_all_stimuli(): the process starts.
LoadAllStimuli(s) ==
    /\ lab_pc[s] = "off"
    /\ LET data == ParseStimuli(stim_file)
       IN  IF LoadAllStimuliError(data) # "none"
           THEN /\ lab_pc' = [lab_pc EXCEPT ![s] = "crashed"]
                /\ lab_error' = [lab_error EXCEPT ![s] = LoadAllStimuliError(data)]
                /\ UNCHANGED lab_stimuli
           ELSE /\ lab_pc' = [lab_pc EXCEPT ![s] = "loop"]
                /\ lab_stimuli' = [lab_stimuli EXCEPT ![s] = data]
                /\ UNCHANGED lab_error
    /\ UNCHANGED <<stim_file, lab_index, lab_rot, lab_dragging, lab_last_pos,
                   lab_data,
                   sessionVars, anaVars>>

\* pygame.QUIT: pygame.quit(); quit()
LabQuit(s) ==
    /\ lab_pc[s] = "loop"
    /\ lab_pc' = [lab_pc EXCEPT ![s] = "quit"]
    /\ UNCHANGED <<stim_file, lab_error, lab_stimuli, lab_index, lab_rot,
                   lab_dragging, lab_last_pos, lab_data,
                   sessionVars, anaVars>>

WrapIndexMutantClamp(i, step, n) ==
    IF i + step < 0 THEN 0 ELSE IF i + step >= n THEN n - 1 ELSE i + step

\* (current_index + step) % len(all_stimuli): Python's % takes the sign of
\* the divisor, so the result is never negative.
WrapIndex(i, step, n) == (i + step) % n

\* K_RIGHT (step = 1) and K_LEFT (step = -1).
LabNavigate(s, step) ==
    /\ lab_pc[s] = "loop"
    /\ lab_index' = [lab_index EXCEPT
                        ![s] = WrapIndex(lab_index[s], step, Len(lab_stimuli[s]))]
    /\ lab_rot' = [lab_rot EXCEPT ![s] = <<0, 0>>]
    /\ UNCHANGED <<stim_file, lab_pc, lab_error, lab_stimuli, lab_dragging,
                   lab_last_pos, lab_data,
                   sessionVars, anaVars>>

LabKeyRight(s) == LabNavigate(s, 1)
LabKeyLeft(s) == LabNavigate(s, 0 - 1)

\* K_s (value False) and K_d (value True): the label is written to the record
\* in memory, then the record is saved.
LabLabel(s, value) ==
    /\ lab_pc[s] = "loop"
    /\ lab_stimuli' = [lab_stimuli EXCEPT ![s][lab_index[s] + 1].is_mirror = value]
    /\ stim_file' = SaveStimulusToJson(stim_file, lab_stimuli'[s], lab_index[s])
    /\ UNCHANGED <<lab_pc, lab_error, lab_index, lab_rot, lab_dragging,
                   lab_last_pos, lab_data,
                   sessionVars, anaVars>>

\* The same handler taken in two steps, for processes that run side by side:
\* the label is written to the record in memory and json.load reads the file
\* into data; then data[current_index] is patched and data is written back.
\* The patch touches nothing shared, so it is taken with the write.
LabLabelBegin(s, value) ==
    /\ lab_pc[s] = "loop"
    /\ lab_stimuli' = [lab_stimuli EXCEPT ![s][lab_index[s] + 1].is_mirror = value]
    /\ lab_data' = [lab_data EXCEPT ![s] = ParseStimuli(stim_file)]
    /\ lab_pc' = [lab_pc EXCEPT ![s] = "saving"]
    /\ UNCHANGED <<stim_file, lab_error, lab_index, lab_rot, lab_dragging,
                   lab_last_pos, sessionVars, anaVars>>

SaveSnapshotMutantFresh(s) == ParseStimuli(stim_file)

\* data as json.load returned it when the save began.
SaveSnapshot(s) == lab_data[s]

LabSaveWrite(s) ==
    /\ lab_pc[s] = "saving"
    /\ stim_file' = DumpStimuli([SaveSnapshot(s) EXCEPT
                                    ![lab_index[s] + 1] =
                                        lab_stimuli[s][lab_index[s] + 1]])
    /\ lab_data' = [lab_data EXCEPT ![s] = <<>>]
    /\ lab_pc' = [lab_pc EXCEPT ![s] = "loop"]
    /\ UNCHANGED <<lab_error, lab_stimuli, lab_index, lab_rot, lab_dragging,
                   lab_last_pos, sessionVars, anaVars>>

LabKeySame(s) == LabLabel(s, False)
LabKeyDifferent(s) == LabLabel(s, True)

\* MOUSEBUTTONDOWN: the left button starts a drag, on every stimulus.
LabMouseButtonDown(s, button, pos) ==
    /\ lab_pc[s] = "loop"
    /\ IF button = 1
       THEN /\ lab_dragging' = [lab_dragging EXCEPT ![s] = TRUE]
            /\ lab_last_pos' = [lab_last_pos EXCEPT ![s] = pos]
       ELSE UNCHANGED <<lab_dragging, lab_last_pos>>
    /\ UNCHANGED <<stim_file, lab_pc, lab_error, lab_stimuli, lab_index,
                   lab_rot, lab_data,
                   sessionVars, anaVars>>

LabMouseButtonUp(s, button) ==
    /\ lab_pc[s] = "loop"
    /\ IF button = 1
       THEN lab_dragging' = [lab_dragging EXCEPT ![s] = FALSE]
       ELSE UNCHANGED lab_dragging
    /\ UNCHANGED <<stim_file, lab_pc, lab_error, lab_stimuli, lab_index,
                   lab_rot, lab_last_pos, lab_data,
                   sessionVars, anaVars>>

Abs(x) == IF x < 0 THEN 0 - x ELSE x

\* MOUSEMOTION: right_rotation_y += dx * 0.5, right_rotation_x += dy * 0.5.
\* Subscripting last_mouse_pos while it is None raises TypeError.
LabMouseMotion(s, pos) ==
    /\ lab_pc[s] = "loop"
    /\ IF lab_dragging[s]
       THEN IF lab_last_pos[s] = NoPos
            THEN /\ lab_pc' = [lab_pc EXCEPT ![s] = "crashed"]
                 /\ lab_error' = [lab_error EXCEPT ![s] = "TypeError"]
                 /\ UNCHANGED <<lab_rot, lab_last_pos>>
            ELSE LET dx == pos[1] - lab_last_pos[s][1]
                     dy == pos[2] - lab_last_pos[s][2]
                     rot_x == lab_rot[s][1] + dy
                     rot_y == lab_rot[s][2] + dx
                 IN  /\ Abs(rot_x) <= LabMaxRot
                     /\ Abs(rot_y) <= LabMaxRot
                     /\ lab_rot' = [lab_rot EXCEPT ![s] = <<rot_x, rot_y>>]
                     /\ lab_last_pos' = [lab_last_pos EXCEPT ![s] = pos]
                     /\ UNCHANGED <<lab_pc, lab_error>>
       ELSE UNCHANGED <<lab_pc, lab_error, lab_rot, lab_last_pos>>
    /\ UNCHANGED <<stim_file, lab_stimuli, lab_index, lab_dragging,
                   lab_data,
                   sessionVars, anaVars>>

\* The file as the stimulus generator leaves it: no record is labeled yet
\* (is_mirror null or missing); every labeled file is reached by labeling.
LabDraggingAtStartMutantSet == TRUE

\* mouse_dragging = False
LabDraggingAtStart == FALSE

InitLabelOn(maxLen) ==
    /\ SessionIdle
    /\ AnalyzerIdle
    /\ stim_file \in { DumpStimuli(c) :
                          c \in Collections(maxLen, {None, Absent}) }
    /\ lab_pc = [s \in Sessions |-> "off"]
    /\ lab_error = [s \in Sessions |-> "none"]
    /\ lab_stimuli = [s \in Sessions |-> <<>>]
    /\ lab_index = [s \in Sessions |-> 0]
    /\ lab_rot = [s \in Sessions |-> <<0, 0>>]
    /\ lab_dragging = [s \in Sessions |-> LabDraggingAtStart]
    /\ lab_last_pos = [s \in Sessions |-> NoPos]
    /\ lab_data = [s \in Sessions |-> <<>>]

InitLabel == InitLabelOn(LabMaxStim)

\* The key and window events of process s, and its pointer events.
LabKeys(s) ==
    \/ LoadAllStimuli(s)
    \/ LabQuit(s)
    \/ LabKeyRight(s)
    \/ LabKeyLeft(s)
    \/ LabKeySame(s)
    \/ LabKeyDifferent(s)

LabPointer(s) ==
    \/ \E b \in Buttons, p \in LabPositions : LabMouseButtonDown(s, b, p)
    \/ \E b \in Buttons : LabMouseButtonUp(s, b)
    \/ \E p \in LabPositions : LabMouseMotion(s, p)

\* One labeling process, all its events.
NextLabel == LabKeys(1) \/ LabPointer(1)

SpecLabel == InitLabel /\ [][NextLabel]_vars

\* The two event loops that follow the pointer: a run of the experiment or
\* a run of the labeling tool.
InitLoops == Init \/ InitLabel
NextLoops == Next \/ NextLabel
SpecLoops == InitLoops /\ [][NextLoops]_vars

\* Two labeling processes on the same file. The pointer handlers read and
\* write only lab_rot, lab_dragging and lab_last_pos, which no key handler
\* reads: they are followed in SpecLabel and left out here.
NextLabelPair == \E s \in Sessions : LabKeys(s)

SpecLabelPair == InitLabel /\ [][NextLabelPair]_vars

\* Largest stimulus file two interleaving processes work on.
RaceMaxStim == 2

\* Two labeling processes whose saves interleave: the read and the write of
\* save_stimulus_to_json are separate steps of each process.
NextLabelRace ==
    \E s \in Sessions :
        \/ LoadAllStimuli(s)
        \/ LabQuit(s)
        \/ LabKeyRight(s)
        \/ LabKeyLeft(s)
        \/ LabLabelBegin(s, False)
        \/ LabLabelBegin(s, True)
        \/ LabSaveWrite(s)

SpecLabelRace == InitLabelOn(RaceMaxStim) /\ [][NextLabelRace]_vars

\* ======================================================= the ADE analyzers
\* Largest result list handed to analyze_ade / analyze_ade_automatically, and
\* the initial angles and response times its records are drawn from.
AnaMaxResults == 3
AnaAngles == {0, 1}
AnaTimes == {0, 1}
\* Largest sample handed to a regression alone, and its angles and times.
RegMaxSamples == 3
RegAngles == {0, 1, 2}
RegTimes == {0, 1, 2}

\* Exact fractions <<numerator, denominator>>; a zero denominator is nan,
\* which equals nothing.
NaN == <<0, 0>>
Zero == <<0, 1>>
RatEq(a, b) == a[2] # 0 /\ b[2] # 0 /\ a[1] * b[2] = b[1] * a[2]

\* A correlation coefficient: its sign and its square ("nan" when undefined).
RZero == [sign |-> "zero", sq |-> Zero]
RNaN == [sign |-> "nan", sq |-> NaN]
Sign(v) == IF v > 0 THEN "pos" ELSE IF v < 0 THEN "neg" ELSE "zero"

RECURSIVE SumSeq(_)
SumSeq(seq) == IF Len(seq) = 0 THEN 0 ELSE Head(seq) + SumSeq(Tail(seq))

Products(xs, ys) == [k \in 1..Len(xs) |-> xs[k] * ys[k]]

\* n^2 times the covariance of xs and ys (n^2 times the variance for xs = ys).
Cov(xs, ys) == Len(xs) * SumSeq(Products(xs, ys)) - SumSeq(xs) * SumSeq(ys)

\* scipy.stats.pearsonr(x, y): ValueError below two points, nan (with a
\* warning) when x or y is constant, else cov / sqrt(var_x * var_y).
Pearsonr(xs, ys) ==
    IF Len(xs) < 2
    THEN [raised |-> TRUE, r |-> RNaN, p |-> "none"]
    ELSE IF Cov(xs, xs) = 0 \/ Cov(ys, ys) = 0
    THEN [raised |-> FALSE, r |-> RNaN, p |-> "nan"]
    ELSE [raised |-> FALSE,
          r |-> [sign |-> Sign(Cov(xs, ys)),
                 sq |-> <<Cov(xs, ys) * Cov(xs, ys), Cov(xs, xs) * Cov(ys, ys)>>],
          p |-> "computed"]

LinregressMutantThroughOrigin(xs, ys, strict) ==
    [raised |-> FALSE,
     slope |-> <<SumSeq(Products(xs, ys)), SumSeq(Products(xs, xs))>>,
     intercept |-> Zero,
     r |-> [sign |-> Sign(Cov(xs, ys)),
            sq |-> <<Cov(xs, ys) * Cov(xs, ys), Cov(xs, xs) * Cov(ys, ys)>>],
     p |-> "computed"]

\* scipy.stats.linregress(x, y). strict is the build of the library: the
\* releases that raise ValueError when all x values are identical, or the
\* older ones that divide by the zero variance and return nan. The p-value of
\* a regression that was computed is not followed.
Linregress(xs, ys, strict) ==
    IF Len(xs) = 0 \/ (strict /\ Len(xs) > 1 /\ Cov(xs, xs) = 0)
    THEN [raised |-> TRUE, slope |-> NaN, intercept |-> NaN, r |-> RNaN,
          p |-> "none"]
    ELSE IF Cov(xs, xs) = 0
    THEN [raised |-> FALSE, slope |-> NaN, intercept |-> NaN, r |-> RZero,
          p |-> "nan"]
    ELSE [raised |-> FALSE,
          slope |-> <<Cov(xs, ys), Cov(xs, xs)>>,
          intercept |-> <<SumSeq(ys) * Cov(xs, xs) - Cov(xs, ys) * SumSeq(xs),
                          Len(xs) * Cov(xs, xs)>>,
          r |-> IF Cov(ys, ys) = 0
                THEN RZero
                ELSE [sign |-> Sign(Cov(xs, ys)),
                      sq |-> <<Cov(xs, ys) * Cov(xs, ys),
                               Cov(xs, xs) * Cov(ys, ys)>>],
          p |-> "computed"]

\* calculate_correlation of analyze_ade.py.
CalculateCorrelation(xs, ys) ==
    IF Len(xs) < 2
    THEN [raised |-> FALSE, r |-> RZero, p |-> "1"]
    ELSE Pearsonr(xs, ys)

\* [r for r in data if r['is_correct']] and [... if not r['is_correct']]:
\* null is falsy.
IsTruthy(r) == r.is_correct = True
IsFalsyMutantStrict(r) == r.is_correct = False
IsFalsy(r) == r.is_correct # True
CorrectOf(data) == SelectSeq(data, IsTruthy)
IncorrectOf(data) == SelectSeq(data, IsFalsy)

IsRotable(r) == r.rotation_enabled
IsNotRotable(r) == ~r.rotation_enabled
RotablesOf(data) == SelectSeq(data, IsRotable)
NonRotablesOf(data) == SelectSeq(data, IsNotRotable)

AnglesOf(part) == [k \in 1..Len(part) |-> part[k].initial_angle]
TimesOf(part) == [k \in 1..Len(part) |-> part[k].response_time]

\* len(correct_angles) >= 2
EnoughSamples(n) == n >= 2

\* The else branches: r, p = 0.0, 1.0 and slope, intercept, r, p = 0, 0, 0, 1.
DegenerateFit(n) ==
    [n |-> n, invoked |-> FALSE, raised |-> FALSE, slope |-> Zero,
     intercept |-> Zero, r |-> RZero, p |-> "1", r_reg |-> RZero]

\* Lines 57-71 of analyze_ade.py, for one partition: the correlation, then
\* the regression, when the partition has enough samples.
PartitionFitAde(part, strict) ==
    IF EnoughSamples(Len(part))
    THEN LET c == CalculateCorrelation(AnglesOf(part), TimesOf(part))
             l == Linregress(AnglesOf(part), TimesOf(part), strict)
         IN  [n |-> Len(part), invoked |-> TRUE,
              raised |-> c.raised \/ l.raised,
              slope |-> l.slope, intercept |-> l.intercept,
              r |-> c.r, p |-> c.p, r_reg |-> l.r]
    ELSE DegenerateFit(Len(part))

\* Lines 172-181 of experience_pygame_3d.py (make_plot), for one partition.
PartitionFitAuto(part, strict) ==
    IF EnoughSamples(Len(part))
    THEN LET l == Linregress(AnglesOf(part), TimesOf(part), strict)
         IN  [n |-> Len(part), invoked |-> TRUE, raised |-> l.raised,
              slope |-> l.slope, intercept |-> l.intercept,
              r |-> l.r, p |-> l.p, r_reg |-> l.r]
    ELSE DegenerateFit(Len(part))

Parts == {"correct", "incorrect"}
NoFits == [k \in {} |-> Zero]

\* The fits of the groups in done, each computed by its partitions.
FitsOf(done, correct, incorrect) ==
    [k \in done \X Parts |->
        IF k[2] = "correct" THEN correct[k[1]] ELSE incorrect[k[1]]]

\* analyze_ade(results): nothing is computed for an empty list; an exception
\* of a regression leaves the function before anything is reported.
AnalyzeAde(strict) ==
    /\ ana_pc = "input"
    /\ ana_pc' = "done"
    /\ LET c == PartitionFitAde(CorrectOf(ana_results), strict)
           i == PartitionFitAde(IncorrectOf(ana_results), strict)
           raised == Len(ana_results) > 0 /\ (c.raised \/ i.raised)
           done == IF Len(ana_results) = 0 \/ raised THEN {} ELSE {"all"}
       IN  ana_out' = [by |-> "analyze_ade", raised |-> raised,
                       fits |-> FitsOf(done, [g \in {"all"} |-> c],
                                       [g \in {"all"} |-> i])]
    /\ UNCHANGED <<ana_results, labelVars, sessionVars>>

\* analyze_ade_automatically(results_dict): make_plot for the trials with
\* rotation if there are any, then for the trials without if there are any.
AnalyzeAdeAutomatically(strict) ==
    /\ ana_pc = "input"
    /\ ana_pc' = "done"
    /\ LET data == [g \in {"rotation", "sans_rotation"} |->
                      IF g = "rotation" THEN RotablesOf(ana_results)
                                        ELSE NonRotablesOf(ana_results)]
           c == [g \in DOMAIN data |-> PartitionFitAuto(CorrectOf(data[g]), strict)]
           i == [g \in DOMAIN data |-> PartitionFitAuto(IncorrectOf(data[g]), strict)]
           raises == [g \in DOMAIN data |->
                        Len(data[g]) > 0 /\ (c[g].raised \/ i[g].raised)]
           done == { g \in DOMAIN data :
                       /\ Len(data[g]) > 0
                       /\ ~raises["rotation"]
                       /\ ~raises[g] }
       IN  ana_out' = [by |-> "analyze_ade_automatically",
                       raised |-> raises["rotation"] \/ raises["sans_rotation"],
                       fits |-> FitsOf(done, c, i)]
    /\ UNCHANGED <<ana_results, labelVars, sessionVars>>

\* calculer_ade of experience1.py: the correlation and the regression of one
\* sample, with no test of its size.
CalculerAde(strict) ==
    /\ ana_pc = "input"
    /\ ana_pc' = "done"
    /\ LET c == Pearsonr(AnglesOf(ana_results), TimesOf(ana_results))
           l == Linregress(AnglesOf(ana_results), TimesOf(ana_results), strict)
           raised == c.raised \/ l.raised
           fit == [n |-> Len(ana_results), invoked |-> TRUE, raised |-> raised,
                   slope |-> l.slope, intercept |-> l.intercept,
                   r |-> c.r, p |-> c.p, r_reg |-> l.r]
       IN  ana_out' = [by |-> "calculer_ade", raised |-> raised,
                       fits |-> FitsOf(IF raised THEN {} ELSE {"all"},
                                       [g \in {"all"} |-> fit],
                                       [g \in {"all"} |-> fit])]
    /\ UNCHANGED <<ana_results, labelVars, sessionVars>>

\* The fields of a result that the analyzers read.
ResultLists(maxLen, corrects, rotations, angles, times) ==
    UNION { [1..n -> [is_correct : corrects, rotation_enabled : rotations,
                      initial_angle : angles, response_time : times]]
            : n \in 0..maxLen }

InitAnalyze ==
    /\ SessionIdle
    /\ LabelIdle
    /\ ana_pc = "input"
    /\ ana_results \in ResultLists(AnaMaxResults, {True, False, None}, BOOLEAN,
                                    AnaAngles, AnaTimes)
    /\ ana_out = NoFits

NextAnalyze ==
    \/ \E strict \in BOOLEAN : AnalyzeAde(strict)
    \/ \E strict \in BOOLEAN : AnalyzeAdeAutomatically(strict)

SpecAnalyze == InitAnalyze /\ [][NextAnalyze]_vars

\* One sample handed to a regression: every record in the same partition.
InitRegress ==
    /\ SessionIdle
    /\ LabelIdle
    /\ ana_pc = "input"
    /\ ana_results \in ResultLists(RegMaxSamples, {True}, {FALSE},
                                    RegAngles, RegTimes)
    /\ ana_out = NoFits

NextRegress ==
    \/ \E strict \in BOOLEAN : CalculerAde(strict)
    \/ \E strict \in BOOLEAN : AnalyzeAde(strict)

SpecRegress == InitRegress /\ [][NextRegress]_vars

\* ================================================================== claims
Last(seq) == seq[Len(seq)]

\* A step of the K_s / K_d branch that appended a TrialResult.
Recorded == Len(results') = Len(results) + 1

\* C1 (as stated): for every accepted response the recorded is_correct is
\* True exactly when (same and the trial is not mirrored) or (different and
\* the trial is mirrored) and False otherwise; user_response is True exactly
\* when the response was "different".
C1_CorrectnessRule ==
    [][ /\ (KeySame /\ Recorded) =>
              /\ Last(results').user_response = False
              /\ Last(results').is_correct =
                    (IF current_trial_data.is_mirror = False THEN True ELSE False)
        /\ (KeyDifferent /\ Recorded) =>
              /\ Last(results').user_response = True
              /\ Last(results').is_correct =
                    (IF current_trial_data.is_mirror = True THEN True ELSE False)
      ]_vars

\* C2: the result log is an in-order image of a prefix of the plan: its
\* length is the current trial index and at most len(plan), record k has
\* trial_number k and the stimulus id, is_mirror and rotation_enabled of
\* plan[k-1]; and a step never changes, reorders or removes a record.
C2_LogImage ==
    /\ Len(results) = current_trial
    /\ current_trial <= Len(trials)
    /\ \A k \in 1..Len(results) :
          /\ results[k].trial_number = k
          /\ results[k].stimulus_id = all_stimuli[trials[k].stimulus].id
          /\ results[k].is_mirror = trials[k].is_mirror
          /\ results[k].rotation_enabled = trials[k].rotation_enabled

C2_LogPrefixOfPlan ==
    /\ []C2_LogImage
    /\ [][ /\ Len(results') >= Len(results)
           /\ SubSeq(results', 1, Len(results)) = results ]_vars

\* C2 witness: a session that has recorded two trials and processed a later
\* event (the abort) without touching them.
C2_Witness ==
    /\ Len(results) = 2
    /\ pc = "done"
    /\ results[1].stimulus_id # results[2].stimulus_id

\* C3 (as stated): if the abort arrives after exactly k accepted responses,
\* the session ends with a log of exactly k records numbered 1..k, and those
\* records are the ones persisted.
C3_AbortKeepsExactlyK ==
    (pc \in {"quit", "done"} /\ abort_at # NoAbort) =>
        /\ Len(results) = abort_at
        /\ \A k \in 1..Len(results) : results[k].trial_number = k
        /\ pc = "done" => LoadResults(results_file.content) = results

\* C4: after a response that moves the session to the next trial both
\* accumulators read (0, 0) and stay so until the first effective drag of the
\* new trial, whatever was dragged in the trial before.
C4_ResetOnTransition ==
    (current_trial >= 1 /\ current_trial < Len(trials) /\ n_drags = 0) =>
        (response_rot_x = 0 /\ response_rot_y = 0)

\* C4 witness: the second trial has begun, nothing was dragged in it yet, and
\* the first trial was answered with the figure rotated.
C4_Witness ==
    /\ current_trial = 1
    /\ current_trial < Len(trials)
    /\ n_drags = 0
    /\ pc = "events"
    /\ results[1].disparity > 0
    /\ response_rot_x = 0
    /\ response_rot_y = 0

\* C5: while the current trial has rotation disabled no event changes the
\* accumulators, and every TrialResult with rotation_enabled = false has
\* disparity 0.
C5_DisabledStateInv ==
    /\ ~rotation_enabled => (response_rot_x = 0 /\ response_rot_y = 0)
    /\ \A k \in 1..Len(results) :
          ~results[k].rotation_enabled => results[k].disparity = 0

C5_NoRotationWhenDisabled ==
    /\ []C5_DisabledStateInv
    /\ [][ ~rotation_enabled =>
              (response_rot_x' = response_rot_x /\ response_rot_y' = response_rot_y)
         ]_vars

\* C5 witness: a rotation-disabled trial was recorded after a trial in which
\* the figure was rotated, with the pointer still held down.
C5_Witness ==
    /\ Len(results) = 2
    /\ results[1].disparity > 0
    /\ ~results[2].rotation_enabled
    /\ results[2].disparity = 0
    /\ mouse_dragging
    /\ last_mouse_pos # NoPos

\* C6: after any sequence of effective drags of a trial rot_y = 0.5 * sum(dx)
\* and rot_x = 0.5 * sum(dy) (in half degrees: the sums themselves), with no
\* clamping or wraparound.
C6_DragAccumulation ==
    /\ response_rot_y = drag_sum[1]
    /\ response_rot_x = drag_sum[2]

\* C6 witness: two effective drags have turned the figure by more than 360
\* degrees (720 half degrees) about the y axis, and it is turned about x too.
C6_Witness ==
    /\ n_drags = 2
    /\ response_rot_y > 720
    /\ response_rot_x # 0

\* C7: the disparity recorded is the Euclidean norm of the accumulators at
\* the moment of the response, whatever the base angle of the stimulus:
\* it is >= 0, its square is rot_x^2 + rot_y^2 (to the half-degree grid on
\* which the square root is kept), and it is 0 exactly when both are 0.
C7_DisparityIsNorm ==
    [][ Recorded =>
          LET d == Last(results').disparity
              v == response_rot_x * response_rot_x + response_rot_y * response_rot_y
          IN  /\ d >= 0
              /\ d * d <= v
              /\ v < (d + 1) * (d + 1)
              /\ (d = 0) <=> (response_rot_x = 0 /\ response_rot_y = 0)
      ]_vars

\* C7 witness: a response recorded with both accumulators non-zero, on a
\* stimulus whose base angle is not 0.
C7_Witness ==
    /\ Len(results) >= 1
    /\ results[1].disparity > 801
    /\ results[1].initial_angle > 0

\* C8: the trial at plan index j has rotation enabled exactly when
\* j < n_rotation, so no enabled trial follows a disabled one.
C8_RotationPrefix ==
    pc = "planned" =>
        /\ \A j \in 1..Len(trials) :
              trials[j].rotation_enabled <=> (j - 1 < n_with_rotation)
        /\ \A i, j \in 1..Len(trials) :
              (i < j /\ ~trials[i].rotation_enabled) => ~trials[j].rotation_enabled

\* C8 witness: a plan of four trials, two enabled then two disabled.
C8_Witness ==
    /\ pc = "planned"
    /\ Len(trials) = 4
    /\ n_with_rotation = 2
    /\ trials[2].rotation_enabled
    /\ ~trials[3].rotation_enabled

\* C9: the plan has min(n_rotation + n_no_rotation, available) trials,
\* available being the size of the collection, on both paths.
C9_PlanLength ==
    pc = "planned" =>
        Len(trials) = Min(n_with_rotation + n_without_rotation, Len(all_stimuli))

\* C9 witness: the fallback path with a collection shorter than the request.
C9_Witness ==
    /\ pc = "planned"
    /\ FallbackTaken(all_stimuli, n_with_rotation + n_without_rotation)
    /\ Len(all_stimuli) < n_with_rotation + n_without_rotation
    /\ Len(trials) = Len(all_stimuli)
    /\ Len(trials) >= 2

\* C10: when enough stimuli are labeled, every trial binds a labeled
\* stimulus, no stimulus is bound twice, and the stimuli of the plan are
\* among the valid ones.
C10_NormalPathValid ==
    (pc = "planned"
       /\ ~FallbackTaken(all_stimuli, n_with_rotation + n_without_rotation)) =>
        /\ \A j \in 1..Len(trials) :
              /\ trials[j].stimulus \in 1..Len(all_stimuli)
              /\ all_stimuli[trials[j].stimulus].is_mirror \in {True, False}
              /\ \E k \in 1..Len(ValidStimuli(all_stimuli)) :
                    ValidStimuli(all_stimuli)[k] = trials[j].stimulus
        /\ \A i, j \in 1..Len(trials) :
              trials[i].stimulus = trials[j].stimulus => i = j

\* C10 witness: a plan of three trials drawn from a collection that also
\* holds an unlabeled stimulus.
C10_Witness ==
    /\ pc = "planned"
    /\ ~FallbackTaken(all_stimuli, n_with_rotation + n_without_rotation)
    /\ Len(trials) = 3
    /\ Len(all_stimuli) = 4
    /\ \E i \in 1..Len(all_stimuli) : all_stimuli[i].is_mirror \in {None, Absent}

\* The stimuli bound by the trials of the plan, as indices of the collection.
PlanStimuli == { trials[j].stimulus : j \in 1..Len(trials) }

\* C11: when fewer than n stimuli are labeled, the plan is built all the same
\* and the set of stimuli it binds is exactly the first n records of the
\* unfiltered collection (all of them when the collection is shorter), the
\* records with a null or missing is_mirror included, each bound once.
C11_FallbackFirstN ==
    (pc = "planned"
       /\ FallbackTaken(all_stimuli, n_with_rotation + n_without_rotation)) =>
        /\ PlanStimuli =
              1..Min(n_with_rotation + n_without_rotation, Len(all_stimuli))
        /\ Len(trials) = Cardinality(PlanStimuli)

\* C11 witness: a fallback plan of three trials out of four records, binding
\* a record whose is_mirror is null.
C11_Witness ==
    /\ pc = "planned"
    /\ FallbackTaken(all_stimuli, n_with_rotation + n_without_rotation)
    /\ Len(all_stimuli) = 4
    /\ Len(trials) = 3
    /\ \E j \in 1..Len(trials) : all_stimuli[trials[j].stimulus].is_mirror = None
    /\ \E j \in 1..Len(trials) : all_stimuli[trials[j].stimulus].is_mirror = True

\* The is_mirror that generate_trial_set read for plan position k.
PlannedIsMirror(k) == GetIsMirror(plan_stimuli[trials[k].stimulus], False)

\* C12: a trial's is_mirror is the value copied when the plan was built:
\* whatever is written to the stimulus records afterwards, every trial keeps
\* that value, and each recorded result carries it and a correctness computed
\* from it, in the log and in the results file.
C12_IsMirrorIsACopy ==
    /\ \A k \in 1..Len(trials) : trials[k].is_mirror = PlannedIsMirror(k)
    /\ \A k \in 1..Len(results) :
          /\ results[k].is_mirror = PlannedIsMirror(k)
          /\ results[k].is_correct =
                IF results[k].user_response = False
                THEN PyNot(PlannedIsMirror(k))
                ELSE PlannedIsMirror(k)
    /\ pc = "done" =>
          \A k \in 1..Len(results) :
              LoadResults(results_file.content)[k].is_mirror = PlannedIsMirror(k)

\* C12 witness: the record bound by the second trial was rewritten with the
\* opposite label, and the result recorded for that trial and saved to the
\* file still has the label of the plan.
C12_Witness ==
    /\ pc = "done"
    /\ Len(results) = 2
    /\ PlannedIsMirror(2) = True
    /\ all_stimuli[trials[2].stimulus].is_mirror = False
    /\ results[2].is_mirror = True
    /\ results[2].user_response = True
    /\ results[2].is_correct = True

\* C17: the results file is written once, only after the loop has ended
\* (all trials answered, or abort), never while a trial is presented, and a
\* finished session's file reads back as the log: one record per entry, in
\* order, the nine fields unchanged.
C17_WrittenOnceAtEnd ==
    /\ results_file.writes <= 1
    /\ pc \in {"events", "render", "quit", "crashed"} => results_file.writes = 0
    /\ results_file.writes = 1 =>
          /\ ~running
          /\ current_trial >= Len(trials) \/ abort_at # NoAbort
    /\ pc = "done" =>
          /\ results_file.writes = 1
          /\ Len(results_file.content) = Len(results)
          /\ \A k \in 1..Len(results) :
                /\ Cardinality(DOMAIN results_file.content[k]) = 9
                /\ LoadResults(results_file.content)[k] = results[k]

\* C17 witness: a completed session of two trials whose file holds the two
\* records, the second one answered "different" without rotation.
C17_Witness ==
    /\ pc = "done"
    /\ abort_at = NoAbort
    /\ results_file.writes = 1
    /\ Len(results_file.content) = 2
    /\ results_file.content[2].trial_number = 2
    /\ results_file.content[2].user_response = "true"
    /\ results_file.content[2].rotation_enabled = "false"

\* C18 (as stated): a stimulus file holding zero records ends the experiment
\* with the empty-data error (the ValueError of load_all_stimuli).
C18_EmptyLoadRaisesEmptyData ==
    Len(all_stimuli) = 0 => (pc = "crashed" /\ error = "ValueError")

\* C19 (as stated): once an abort signal has been handled, no later event
\* appends a result, advances the trial index or changes the accumulators.
C19_AbortIsImmediate ==
    [][abort_at # NoAbort =>
          /\ results' = results
          /\ current_trial' = current_trial
          /\ response_rot_x' = response_rot_x
          /\ response_rot_y' = response_rot_y]_vars

\* Presenting(i): the loop runs and trial i is on screen.
Presenting == running /\ pc \in {"events", "render"}

\* C20: a step that changes the trial index, the current trial, the start
\* time or the log, or that takes the session out of Presenting, is the
\* handling of a same key, a different key or an abort signal: pointer events,
\* the end of a batch and rendered frames do none of it, however long the
\* clock runs.
C20_OnlyKeysLeavePresenting ==
    [][(Presenting /\ (\/ current_trial' # current_trial
                        \/ current_trial_data' # current_trial_data
                        \/ start_time' # start_time
                        \/ results' # results
                        \/ ~(running' /\ pc' \in {"events", "render"})))
        => (KeySame \/ KeyDifferent \/ \E signal \in AbortSignals : Abort(signal))]_vars

\* C20 witness: the first trial is still presented after a frame, two drags
\* and a tick of the clock.
C20_Witness ==
    /\ Presenting
    /\ pc = "events"
    /\ current_trial = 0
    /\ Len(results) = 0
    /\ rotation # Unbound
    /\ n_drags = 2
    /\ now = 1
    /\ start_time = 0

\* What the file must hold after process s pressed the key that labels its
\* current stimulus with b: reloaded, the collection has the length and order
\* of the one in memory, the labeled record is the one of memory with
\* is_mirror = b, every other record is the persisted one, untouched, and
\* the reload is the collection in memory if the file was before the call.
RoundTrip(s, b) ==
    LET k == lab_index[s] + 1
        before == ParseStimuli(stim_file)
        reload == ParseStimuli(stim_file')
    IN  /\ Len(reload) = Len(lab_stimuli[s])
        /\ reload[k] = [lab_stimuli[s][k] EXCEPT !.is_mirror = b]
        /\ \A j \in 1..Len(reload) :
              j # k => (stim_file'[j] = stim_file[j] /\ reload[j] = before[j])
        /\ before = lab_stimuli[s] => reload = lab_stimuli'[s]

\* C13: label round trip. After the S key (b = false) or the D key (b =
\* true), reloading the file yields a collection of the same length and
\* order in which the current record has is_mirror = b and every other
\* record is identical to what it was before the call.
C13_LabelRoundTrip ==
    [][\A s \in Sessions :
          /\ LabKeySame(s) => RoundTrip(s, False)
          /\ LabKeyDifferent(s) => RoundTrip(s, True)]_vars

\* C13 witness: process 1 labeled the second record true after process 2 had
\* loaded it unlabeled; the first record is still persisted as null.
C13_Witness ==
    /\ lab_pc[1] = "loop" /\ lab_pc[2] = "loop"
    /\ Len(stim_file) = 2
    /\ lab_index[1] = 1
    /\ lab_stimuli[2][2].is_mirror = None
    /\ lab_stimuli[1][2].is_mirror = True
    /\ stim_file[2].is_mirror = "true"
    /\ stim_file[1].is_mirror = "null"
    /\ ParseStimuli(stim_file) = lab_stimuli[1]

\* C14 (as stated): after every label call the persisted collection equals
\* the entire collection in the memory of the process that labeled.
C14_FileEqualsMemory ==
    [][\A s \in Sessions, b \in {True, False} :
          LabLabel(s, b) => ParseStimuli(stim_file') = lab_stimuli'[s]]_vars

\* C14 (amended): after every label call the persisted collection is the one
\* that was persisted before the call with the record at the current index
\* replaced by the record in memory; at every other index where the file
\* differed from memory it still differs.
C14_FilePatchedAtIndex ==
    [][\A s \in Sessions, b \in {True, False} :
          LabLabel(s, b) =>
              LET k == lab_index[s] + 1
                  before == ParseStimuli(stim_file)
                  after == ParseStimuli(stim_file')
              IN  /\ after = [before EXCEPT ![k] = lab_stimuli'[s][k]]
                  /\ \A j \in 1..Len(after) :
                        (j # k /\ before[j] # lab_stimuli[s][j])
                            => after[j] # lab_stimuli'[s][j]]_vars

\* C14 witness: both processes loaded an unlabeled file of two records;
\* process 1 labeled the first record, process 2 the second: the file holds
\* both labels and differs from the memory of each process.
C14_Witness ==
    /\ lab_pc[1] = "loop" /\ lab_pc[2] = "loop"
    /\ Len(stim_file) = 2
    /\ lab_stimuli[1][1].is_mirror = False /\ lab_stimuli[1][2].is_mirror = None
    /\ lab_stimuli[2][1].is_mirror = None /\ lab_stimuli[2][2].is_mirror = True
    /\ stim_file[1].is_mirror = "false" /\ stim_file[2].is_mirror = "true"

\* C15 (as stated): the analyzer does not raise, every partition of 0 or 1
\* samples gets the degenerate fit r = 0, p = 1, slope = 0, intercept = 0,
\* whatever the other partitions hold, and the regression is invoked only for
\* partitions of at least 2 samples.
C15_SmallPartitionsDegenerate ==
    ana_pc = "done" =>
        /\ ~ana_out.raised
        /\ \A k \in DOMAIN ana_out.fits :
              /\ ana_out.fits[k].n < 2 =>
                    ana_out.fits[k] = DegenerateFit(ana_out.fits[k].n)
              /\ ana_out.fits[k].invoked => ana_out.fits[k].n >= 2

\* The sample is exactly linear with a non-zero slope: two of its points
\* differ in angle and in time, and every point is on the line through them.
OnLine(xs, ys, i, j) ==
    /\ xs[i] # xs[j]
    /\ ys[i] # ys[j]
    /\ \A m \in 1..Len(xs) :
          (ys[m] - ys[i]) * (xs[j] - xs[i]) = (ys[j] - ys[i]) * (xs[m] - xs[i])

\* C16: for a sample of at least two points with time = a * angle + b
\* exactly, a # 0, the regression of time on angle returns slope = a,
\* intercept = b and |r| = 1 (r of the sign of a), in exact arithmetic.
C16_ExactLineRecovered ==
    ana_pc = "done" =>
        LET xs == AnglesOf(ana_results)
            ys == TimesOf(ana_results)
        IN  \A i, j \in 1..Len(xs) :
                OnLine(xs, ys, i, j) =>
                    LET a == <<ys[j] - ys[i], xs[j] - xs[i]>>
                        b == <<ys[i] * (xs[j] - xs[i]) - (ys[j] - ys[i]) * xs[i],
                               xs[j] - xs[i]>>
                        fit == ana_out.fits[<<"all", "correct">>]
                    IN  /\ ~ana_out.raised
                        /\ RatEq(fit.slope, a)
                        /\ RatEq(fit.intercept, b)
                        /\ RatEq(fit.r.sq, <<1, 1>>)
                        /\ RatEq(fit.r_reg.sq, <<1, 1>>)
                        /\ fit.r.sign = Sign(a[1] * a[2])
                        /\ fit.r_reg.sign = fit.r.sign

\* C16 witness: calculer_ade on three points of the line time = 2 - angle.
C16_Witness ==
    /\ ana_pc = "done"
    /\ ana_out.by = "calculer_ade"
    /\ AnglesOf(ana_results) = <<0, 2, 1>>
    /\ TimesOf(ana_results) = <<2, 0, 1>>
    /\ ana_out.fits[<<"all", "correct">>].r.sign = "neg"

\* C22 (as stated): a same key or a different key handled while a trial is
\* presented appends one TrialResult, at any point of the trial, the first
\* batch of events before any frame included.
C22_ResponseAlwaysRecorded ==
    [][(Presenting /\ (KeySame \/ KeyDifferent)) =>
          (Len(results') = Len(results) + 1 /\ pc' # "crashed")]_vars

C24_ResultsAreBoolean ==
    \A k \in 1..Len(results) :
        /\ results[k].is_mirror \in {True, False}
        /\ results[k].is_correct \in {True, False}

\* Completed: the loop was left by the response to the last trial of the plan.
Completed == ~running /\ current_trial >= Len(trials) /\ Len(trials) > 0

\* C21 (as stated): with a trial to present, when no abort occurs and a
\* response key keeps being delivered for the trial presented, the session
\* eventually reaches Completed.
C21_EventuallyCompleted ==
    Len(trials) > 0 => <>(Completed \/ abort_at # NoAbort)

\* The partition a result belongs to: its rotation group in the post-session
\* analysis ("all" in analyze_ade), and whether its is_correct is true.
PartitionKey(r) ==
    << IF ana_out.by = "analyze_ade_automatically"
       THEN (IF r.rotation_enabled THEN "rotation" ELSE "sans_rotation")
       ELSE "all",
       IF r.is_correct = True THEN "correct" ELSE "incorrect" >>

\* The results of partition k, in log order.
Members(k) ==
    LET InK(r) == PartitionKey(r) = k
    IN  SelectSeq(ana_results, InK)

\* C25: when the analyzer gets through, every result belongs to exactly one
\* partition for which a fit is reported, the sample counts of the partitions
\* sum to the number of results, and the fit of a partition is the one of
\* the (initial_angle, response_time) pairs of its own members, no others.
C25_PartitionsCoverDisjoint ==
    (ana_pc = "done" /\ ~ana_out.raised /\ Len(ana_results) > 0) =>
        /\ \A i \in 1..Len(ana_results) :
              PartitionKey(ana_results[i]) \in DOMAIN ana_out.fits
        /\ \A k \in DOMAIN ana_out.fits :
              /\ ana_out.fits[k].n = Len(Members(k))
              /\ ana_out.fits[k].n =
                    Cardinality({ i \in 1..Len(ana_results) :
                                    PartitionKey(ana_results[i]) = k })
              /\ ana_out.fits[k].invoked =>
                    LET l == Linregress(AnglesOf(Members(k)), TimesOf(Members(k)),
                                        FALSE)
                    IN  /\ ana_out.fits[k].slope = l.slope
                        /\ ana_out.fits[k].intercept = l.intercept
                        /\ ana_out.fits[k].r_reg = l.r
        /\ \A k1, k2 \in DOMAIN ana_out.fits :
              k1 # k2 =>
                  \A i \in 1..Len(ana_results) :
                      ~(PartitionKey(ana_results[i]) = k1
                          /\ PartitionKey(ana_results[i]) = k2)

\* C25 witness: the post-session analysis of three results, one of them with
\* a null is_correct, spread over both rotation groups; the incorrect
\* partition of the trials with rotation holds two samples and is fitted.
C25_Witness ==
    /\ ana_pc = "done"
    /\ ~ana_out.raised
    /\ ana_out.by = "analyze_ade_automatically"
    /\ Len(ana_results) = 3
    /\ \E i \in 1..3 : ana_results[i].is_correct = None
    /\ DOMAIN ana_out.fits = {"rotation", "sans_rotation"} \X Parts
    /\ ana_out.fits[<<"rotation", "incorrect">>].n = 2
    /\ ana_out.fits[<<"rotation", "incorrect">>].invoked
    /\ ana_out.fits[<<"sans_rotation", "correct">>].n = 1

\* The stimulus after / before index i in a list of n, wrapping at the ends.
Successor(i, n) == IF i = n - 1 THEN 0 ELSE i + 1
Predecessor(i, n) == IF i = 0 THEN n - 1 ELSE i - 1

\* What the steps of a labeling process do to its index, its accumulators
\* and its records.
LabStepsKeepIndex(s) ==
    LET n == Len(lab_stimuli[s])
        i == lab_index[s]
    IN  /\ LabKeyRight(s) =>
              /\ lab_index'[s] = Successor(i, n)
              /\ lab_rot'[s] = <<0, 0>>
        /\ LabKeyLeft(s) =>
              /\ lab_index'[s] = Predecessor(i, n)
              /\ lab_rot'[s] = <<0, 0>>
        /\ (LabKeySame(s) \/ LabKeyDifferent(s)) =>
              /\ lab_index'[s] = i
              /\ lab_rot'[s] = lab_rot[s]
              /\ Len(lab_stimuli'[s]) = n
              /\ \A k \in 1..n :
                    k # i + 1 => lab_stimuli'[s][k] = lab_stimuli[s][k]

\* C29: in the labeling tool the index always lies in 0..len-1; the next
\* and previous keys move it by one modulo len, so one after the other, in
\* either order, brings it back; both reset the two accumulators; a label
\* key changes neither the index, nor the accumulators, nor any record in
\* memory other than the current one.
C29_IndexWrapsInRange ==
    /\ [](\A s \in Sessions :
            lab_pc[s] = "loop" =>
                LET n == Len(lab_stimuli[s])
                    i == lab_index[s]
                IN  /\ i \in 0..(n - 1)
                    /\ WrapIndex(WrapIndex(i, 1, n), 0 - 1, n) = i
                    /\ WrapIndex(WrapIndex(i, 0 - 1, n), 1, n) = i)
    /\ [][\A s \in Sessions : LabStepsKeepIndex(s)]_vars

\* C29 witness: on a file of three stimuli the tool stands on the last one
\* with zero accumulators after a drag has turned the figure and a
\* navigation key has been pressed, and only that last record is labeled.
C29_Witness ==
    /\ lab_pc[1] = "loop"
    /\ Len(lab_stimuli[1]) = 3
    /\ lab_index[1] = 2
    /\ lab_rot[1] = <<0, 0>>
    /\ lab_dragging[1]
    /\ lab_last_pos[1] = <<801, 599>>
    /\ lab_stimuli[1][3].is_mirror = True
    /\ lab_stimuli[1][1].is_mirror \notin {True, False}
    /\ lab_stimuli[1][2].is_mirror \notin {True, False}

\* Process s holds a label for record k in memory.
HoldsLabel(s, k) ==
    /\ k \in DOMAIN lab_stimuli[s]
    /\ lab_stimuli[s][k].is_mirror \in {True, False}

\* C30: saving a label patches the labeled index on top of the collection
\* read again from the file: when the saves do not interleave, a label that
\* one process holds for a record the other process has not labeled is in
\* the file, whichever process wrote last.
C30_BothLabelsKept ==
    \A s \in Sessions : \A t \in Sessions \ {s} :
        \A k \in DOMAIN lab_stimuli[s] :
            (HoldsLabel(s, k) /\ ~HoldsLabel(t, k)) =>
                /\ k \in DOMAIN stim_file
                /\ stim_file[k].is_mirror = JsonLiteral(lab_stimuli[s][k].is_mirror)

\* C30 witness: two processes loaded the same unlabeled file of three
\* records, one labeled the last record and the other the first, both have
\* quit, and the file holds the two labels.
C30_Witness ==
    /\ lab_pc = [s \in Sessions |-> "quit"]
    /\ Len(stim_file) = 3
    /\ HoldsLabel(1, 3) /\ ~HoldsLabel(1, 1) /\ ~HoldsLabel(1, 2)
    /\ HoldsLabel(2, 1) /\ ~HoldsLabel(2, 2) /\ ~HoldsLabel(2, 3)
    /\ lab_stimuli[1][3].is_mirror = True
    /\ lab_stimuli[2][1].is_mirror = False
    /\ stim_file[3].is_mirror = "true"
    /\ stim_file[1].is_mirror = "false"
    /\ stim_file[2].is_mirror \notin {"true", "false"}

\* Process s is between the read and the write of a save of record k.
SavingRecord(s, k) == lab_pc[s] = "saving" /\ lab_index[s] + 1 = k

\* The label process s holds for record k and has saved is not what the file
\* holds for that record.
LabelLost(s, k) ==
    /\ HoldsLabel(s, k)
    /\ ~SavingRecord(s, k)
    /\ stim_file[k].is_mirror # JsonLiteral(lab_stimuli[s][k].is_mirror)

\* C26: the save is not safe under concurrent writers. Every write puts back
\* the collection the process read when its save began, patched at its own
\* index only, whatever the file holds by then; a saved label goes missing
\* from the file only when the other process has labeled another record.
C26_WriteUsesStaleRead ==
    /\ [][\A s \in Sessions :
            (lab_pc[s] = "saving" /\ lab_pc'[s] = "loop") =>
                /\ Len(stim_file') = Len(lab_data[s])
                /\ \A k \in 1..Len(lab_data[s]) :
                      stim_file'[k] =
                          IF k = lab_index[s] + 1
                          THEN DumpStimulus(lab_stimuli[s][k])
                          ELSE DumpStimulus(lab_data[s][k])]_vars
    /\ [](\A s \in Sessions : \A t \in Sessions \ {s} :
            \A k \in DOMAIN lab_stimuli[s] :
                (LabelLost(s, k) /\ ~HoldsLabel(t, k)) =>
                    \E j \in DOMAIN lab_stimuli[t] : j # k /\ HoldsLabel(t, j))

\* C26 witness, the lost update: both processes are back in their loops,
\* process 1 has labeled and saved record 1, process 2 has labeled and saved
\* record 2 only, and record 1 of the file carries no label.
C26_Witness ==
    /\ lab_pc = [s \in Sessions |-> "loop"]
    /\ Len(stim_file) >= 2
    /\ LabelLost(1, 1)
    /\ ~HoldsLabel(2, 1)
    /\ HoldsLabel(2, 2)
    /\ stim_file[1].is_mirror \notin {"true", "false"}
    /\ stim_file[2].is_mirror = JsonLiteral(lab_stimuli[2][2].is_mirror)

\* A response moves the session on to the next trial.
TrialTransition ==
    /\ KeySame \/ KeyDifferent
    /\ pc' # "crashed"
    /\ current_trial' = current_trial + 1
    /\ running'

\* C28: a trial transition zeroes the accumulators and leaves the drag flag
\* and the last pointer position as they are; a motion while the drag flag
\* is set in a trial with rotation adds the offset from the last pointer
\* position, whichever trial that position was recorded in; in a trial
\* without rotation no step sets the drag flag.
C28_DragSurvivesTransition ==
    /\ [][TrialTransition =>
             /\ mouse_dragging' = mouse_dragging
             /\ last_mouse_pos' = last_mouse_pos
             /\ held_since' = held_since
             /\ response_rot_x' = 0
             /\ response_rot_y' = 0]_vars
    /\ [][\A p \in Positions :
             (MouseMotion(p) /\ mouse_dragging /\ rotation_enabled
                 /\ pc' # "crashed") =>
                 /\ response_rot_y' = response_rot_y + (p[1] - last_mouse_pos[1])
                 /\ response_rot_x' = response_rot_x + (p[2] - last_mouse_pos[2])
                 /\ last_mouse_pos' = p]_vars
    /\ [][(~rotation_enabled /\ ~mouse_dragging) => ~mouse_dragging']_vars

\* C28 witness: in the second trial, with rotation, the accumulators are not
\* zero while the drag in progress began with a pointer-down in the first
\* trial: no pointer-down was delivered since the response.
C28_Witness ==
    /\ pc = "events"
    /\ current_trial = 1
    /\ rotation_enabled
    /\ mouse_dragging
    /\ held_since = 0
    /\ Len(results) = 1
    /\ n_drags = 1
    /\ <<response_rot_x, response_rot_y>> # <<0, 0>>
    /\ response_rot_y = drag_sum[1]
    /\ response_rot_x = drag_sum[2]

\* C27: in the event loop of the experiment and in the one of the labeling
\* tool, while the drag flag is set the last pointer position is set too
\* (not None), so the motion handler never subscripts None.
C27_DraggingHasLastPos ==
    /\ mouse_dragging => last_mouse_pos # NoPos
    /\ \A s \in Sessions : lab_dragging[s] => lab_last_pos[s] # NoPos
    /\ error # "TypeError"
    /\ \A s \in Sessions : lab_error[s] # "TypeError"

\* C27 witness: a drag of the experiment has been followed over two motions
\* and the pointer is still held.
C27_Witness ==
    /\ pc = "events"
    /\ mouse_dragging
    /\ rotation_enabled
    /\ last_mouse_pos \in Positions
    /\ n_drags = 2
    /\ held_since = current_trial

====
